---- MODULE Spec2Model ----
(***************************************************************************)
(* Client-side state machine of the medical CDSS front end: the entry      *)
(* (login/register) page, and the protected dashboard, analysis and        *)
(* records pages.  State is the browser's persisted storage, the current   *)
(* document with its page-local DOM state, the requests in flight and the  *)
(* timers of the current document.  Every event-loop task (a DOM event     *)
(* handler, the continuation of an awaited fetch, a timer callback) is one *)
(* action.                                                                 *)
(***************************************************************************)
EXTENDS Integers, Sequences, FiniteSets, Bags, TLC

\* ------------------------------------------------------------------ bounds
MaxInFlight == 2      \* requests of one document in flight at once
MaxTimers   == 2      \* pending redirect timers of the entry page
MaxId       == 2      \* analysis ids 1..MaxId
MaxRecords  == 2      \* length of a records list
MaxModals   == 2      \* record detail modals open at once
MaxAlerts   == 1      \* floating notifications visible at once
MaxReads    == 2      \* FileReaders pending at once

\* ------------------------------------------------------------ JS values
\* An optional value (null / undefined / absent field) is <<>>, a present
\* value v is <<v>>.
Null == <<>>
Some(v) == <<v>>
\* JS truthiness of an optional string.
Truthy(x) == x # Null /\ x[1] # ""

\* Decimal digits of a non-negative integer, as String(n) gives them.
Digit(d) == CASE d = 0 -> "0" [] d = 1 -> "1" [] d = 2 -> "2" [] d = 3 -> "3"
              [] d = 4 -> "4" [] d = 5 -> "5" [] d = 6 -> "6" [] d = 7 -> "7"
              [] d = 8 -> "8" [] d = 9 -> "9"
RECURSIVE NumToStr(_)
NumToStr(n) == IF n < 10 THEN Digit(n) ELSE NumToStr(n \div 10) \o Digit(n % 10)

\* `${x}` for an optional string: null prints as "null".
TemplateStr(x) == IF x = Null THEN "null" ELSE x[1]

\* ------------------------------------------------------------- domains
Pages     == {"index", "dashboard", "analysis", "records"}
Protected == {"dashboard", "analysis", "records"}
NoPage    == "none"

Tokens      == {"tokA", "tokB"}
DoctorNames == {"Ada"}
DoctorIds   == {12}
Themes      == {"light", "dark"}
Severities  == {"Severe", "Moderate", "Mild", "Critical"}
Ids         == 1..MaxId

Forms == {"login", "register", "analyze"}

\* Notification texts of the client.
MsgNetwork        == "Network error. Please check your connection."
MsgLoginOk        == "Login successful! Redirecting..."
MsgLoginFail      == "Login failed. Please check your credentials."
MsgRegisterOk     == "Registration successful! Redirecting..."
MsgRegisterFail   == "Registration failed. Please try again."
MsgPassword       == "Password must be at least 8 characters long"
MsgAnalyzeOk      == "Analysis completed successfully!"
MsgAnalyzeFail    == "Analysis failed. Please try again."
MsgNoFile         == "Please upload an X-ray image first"
MsgNotImage       == "Please select an image file"
MsgRecordsFail    == "Failed to load records"
MsgDetailFail     == "Failed to load record details"
MsgDownloadOk     == "Report downloaded successfully!"
MsgDownloadFail   == "Failed to download report"

\* Detail texts the server sends with a rejection.
Details == {"Incorrect email or password", "Could not validate credentials"}


\* Files the user can pick: MIME type as <<type, subtype>>.
Files == { [name |-> "xray1", type |-> <<"image", "png">>],
           [name |-> "xray2", type |-> <<"image", "jpeg">>],
           [name |-> "notes", type |-> <<"text", "plain">>] }
\* file.type.startsWith("image/")
IsImage(file) == file.type[1] = "image"
\* FileReader.readAsDataURL result of a file.
DataURL(file) == "data:" \o file.type[1] \o "/" \o file.type[2] \o ";" \o file.name

\* --------------------------------------------------------- server replies
\* A reply to fetch: recv = FALSE is a network failure (fetch rejects);
\* otherwise status is the HTTP status and json says whether the body parses
\* (response.json() / response.blob() resolves).
Statuses == {200, 401, 500}
NoData   == [detail |-> Null]
NetFail  == [recv |-> FALSE, status |-> 0, json |-> FALSE, data |-> NoData]
Reply(st, js, d) == [recv |-> TRUE, status |-> st, json |-> js, data |-> d]
\* response.ok
Ok(resp) == resp.recv /\ resp.status >= 200 /\ resp.status <= 299

\* Error bodies: {"detail": ...} or a JSON body without detail.
ErrorData == { [detail |-> d] : d \in {Null} \cup {Some(x) : x \in Details} }
ErrorReplies == { Reply(st, TRUE, d) : st \in Statuses \ {200}, d \in ErrorData }
                  \cup { Reply(st, FALSE, NoData) : st \in Statuses \ {200} }

\* POST /api/auth/login and /api/auth/register
AuthData == { [detail |-> Null, access_token |-> Some(t), doctor_name |-> Some(n),
               doctor_id |-> Some(i)] : t \in Tokens, n \in DoctorNames, i \in DoctorIds }
AuthReplies == {NetFail} \cup ErrorReplies \cup { Reply(200, FALSE, NoData) }
                 \cup { Reply(200, TRUE, d) : d \in AuthData }

\* POST /api/analyze
AnalyzeData == { [detail |-> Null, analysis_id |-> i, severity |-> s] :
                   i \in Ids, s \in Severities }
AnalyzeReplies == {NetFail} \cup ErrorReplies \cup { Reply(200, FALSE, NoData) }
                    \cup { Reply(200, TRUE, d) : d \in AnalyzeData }

\* Text that is searched is a sequence of characters.
\* The patients of the records: Jane Doe, John Smith.
PatientNames ==
  << <<"J", "a", "n", "e", " ", "D", "o", "e">>,
     <<"J", "o", "h", "n", " ", "S", "m", "i", "t", "h">> >>
\* The characters of a severity.
SeverityText(severity) ==
  CASE severity = "Severe" -> <<"S", "e", "v", "e", "r", "e">>
    [] severity = "Moderate" -> <<"M", "o", "d", "e", "r", "a", "t", "e">>
    [] severity = "Mild" -> <<"M", "i", "l", "d">>
    [] severity = "Critical" -> <<"C", "r", "i", "t", "i", "c", "a", "l">>

\* GET /api/records: lists of at most MaxRecords records, ids 1..n, the
\* patients named in turn.
RecordLists == UNION { [1..n -> Severities] : n \in 0..MaxRecords }
RecordsData == { [detail |-> Null,
                  records |-> [k \in DOMAIN l |->
                     [id |-> k, severity |-> l[k],
                      patient_name |-> PatientNames[((k - 1) % Len(PatientNames)) + 1]]]] :
                   l \in RecordLists }
RecordsReplies == {NetFail} \cup ErrorReplies \cup { Reply(200, FALSE, NoData) }
                    \cup { Reply(200, TRUE, d) : d \in RecordsData }

\* The names of the vital signs, in the form and in a record.
VitalNames == {"temperature", "oxygen_saturation", "heart_rate", "respiratory_rate"}
\* A vital sign of a record: absent (or null), or a number.
VitalReadings == {Null, Some(0), Some(72)}

\* GET /api/records/{id}
DetailData == { [detail |-> Null, severity |-> s, vital_signs |-> v] :
                  s \in Severities, v \in [VitalNames -> VitalReadings] }
DetailReplies == {NetFail} \cup ErrorReplies \cup { Reply(200, FALSE, NoData) }
                   \cup { Reply(200, TRUE, d) : d \in DetailData }

\* GET /api/stats
StatsData == { [detail |-> Null, total_analyses |-> n, recent_count |-> n] :
                 n \in 0..MaxRecords }
StatsReplies == {NetFail} \cup ErrorReplies \cup { Reply(200, FALSE, NoData) }
                  \cup { Reply(200, TRUE, d) : d \in StatsData }

\* GET /api/download/report/{id}: json = TRUE when the blob can be read.
DownloadReplies == {NetFail} \cup { Reply(st, js, NoData) : st \in Statuses, js \in BOOLEAN }

\* ---------------------------------------------------------------- state
VARIABLES
  page,            \* the current document ("none" before the first load)
  nav,             \* window.location.href assigned, navigation not yet done
  token, doctorName, doctorId, theme,   \* localStorage (optional strings)
  dataTheme,       \* data-theme attribute of the document root
  userName,        \* text of .user-info h4
  formShown,       \* entry page: which of #loginForm / #registerForm is displayed
  btnDisabled,     \* submit button of each form: disabled
  btnLoader,       \* submit button of each form: loader shown, text hidden
  net,             \* bag of requests in flight from the current document
  redirectTimers,  \* pending setTimeout(-> dashboard.html) of the entry page
  alerts,          \* notifications currently shown, oldest first
  selectedFile,    \* analysis page: the selected-file slot (optional)
  fileInputValue,  \* analysis page: file chosen in the <input type=file>
  previewActive,   \* analysis page: #imagePreview has class active
  previewSrc,      \* analysis page: #previewImage.src (optional)
  reads,           \* analysis page: bag of files whose FileReader is pending
  results,         \* analysis page: rendered results (optional)
  rows,            \* records page: rendered rows of #recordsTable
  searchReady,     \* records page: the search listener is attached
  modals,          \* records page: open record detail modals
  stats,           \* dashboard: stat cards (optional)
  recentRows,      \* dashboard: rows of #recentAnalyses
  saved            \* files offered by the browser's save flow (a.download)

storageVars  == <<token, doctorName, doctorId, theme>>
sessionVars  == <<token, doctorName, doctorId>>
formVars     == <<formShown, btnDisabled, btnLoader>>
uploadVars   == <<selectedFile, fileInputValue, previewActive, previewSrc, reads>>
recordsVars  == <<rows, searchReady, modals>>
dashVars     == <<stats, recentRows>>
vars == <<page, nav, token, doctorName, doctorId, theme, dataTheme, userName,
          formShown, btnDisabled, btnLoader, net, redirectTimers, alerts,
          selectedFile, fileInputValue, previewActive, previewSrc, reads, results,
          rows, searchReady, modals, stats, recentRows, saved>>

NoNav == NoPage

\* ------------------------------------------------------------- requests
JsonType == Some("application/json")
\* A request in flight: kind names the handler awaiting it, arg what that
\* handler keeps in its closure (the analysis id) or sends as body (the image).
Arg(id, file) == [id |-> id, file |-> file, body |-> <<>>]
NoArg == Arg(0, Null)
Req(kind, url, headers, arg) == [kind |-> kind, url |-> url, headers |-> headers, arg |-> arg]
Pending(kind) == { r \in BagToSet(net) : r.kind = kind }
Room == BagCardinality(net) < MaxInFlight
Send(r) == net (+) SetToBag({r})
Done(r) == net (-) SetToBag({r})

\* getAuthHeaders(): the token is read from storage when the request is built.
getAuthHeaders == [Authorization |-> Some("Bearer " \o TemplateStr(token)),
                   ContentType |-> JsonType]
\* Fault: the request options carry no Authorization header.
BearerOnlyM == [Authorization |-> Null, ContentType |-> Null]

\* headers: { Authorization: `Bearer ${localStorage.getItem("token")}` }
BearerOnly == [Authorization |-> Some("Bearer " \o TemplateStr(token)),
               ContentType |-> Null]
\* headers: { "Content-Type": "application/json" }
JsonOnly == [Authorization |-> Null, ContentType |-> JsonType]

\* localStorage.setItem stores String(value).
StoredStr(x) == IF x = Null THEN Some("undefined") ELSE x
StoredNum(x) == IF x = Null THEN Some("undefined") ELSE Some(NumToStr(x[1]))

\* ------------------------------------------------------------ notifications
Note(msg, type) == [msg |-> msg, type |-> type]
\* showAlert(message, type): the entry page writes into its #alertBox, the
\* other pages append a floating element.
showAlert(msg, type) ==
  IF page = "index"
    THEN alerts' = <<Note(msg, type)>>
    ELSE /\ Len(alerts) < MaxAlerts
         /\ alerts' = Append(alerts, Note(msg, type))
\* Fault: the detail of the body is ignored.
DetailOrM(data, fallback) == fallback

\* data.detail || fallback
DetailOr(data, fallback) == IF Truthy(data.detail) THEN data.detail[1] ELSE fallback

\* The timers of showAlert(): the oldest notification disappears after 5 s
\* (hideAlert() on the entry page, alert.remove() elsewhere).
alertTimeout ==
  /\ alerts # <<>>
  /\ alerts' = Tail(alerts)
  /\ UNCHANGED <<page, nav, storageVars, dataTheme, userName, formVars, net,
                 redirectTimers, uploadVars, results, recordsVars, dashVars, saved>>

\* ---------------------------------------------------------------- shared
\* Fault: checkAuth() without the redirect.
checkAuthM == [href |-> NoNav, ret |-> token]

\* checkAuth(): the redirect it assigns and the value it returns
\* (Null stands for false).
checkAuth == IF ~Truthy(token) THEN [href |-> "index", ret |-> Null]
                               ELSE [href |-> NoNav, ret |-> token]

\* initTheme(): localStorage.getItem("theme") || "light"
initTheme == IF Truthy(theme) THEN theme[1] ELSE "light"

\* updateUserInfo(): doctorName || "Doctor"
updateUserInfo == IF Truthy(doctorName) THEN Some(doctorName[1]) ELSE Some("Doctor")

\* A new document: buttons enabled, nothing rendered, no timers.
FreshDocument ==
  /\ formShown' = "login"
  /\ btnDisabled' = [f \in Forms |-> FALSE]
  /\ btnLoader' = [f \in Forms |-> FALSE]
  /\ redirectTimers' = 0
  /\ alerts' = <<>>
  /\ selectedFile' = Null /\ fileInputValue' = Null
  /\ previewActive' = FALSE /\ previewSrc' = Null /\ reads' = EmptyBag
  /\ results' = Null
  /\ rows' = <<>> /\ searchReady' = FALSE /\ modals' = <<>>
  /\ stats' = Null /\ recentRows' = <<>>

\* A session as login/register leave it in storage, or none.
Sessions == { [token |-> Null, doctorName |-> Null, doctorId |-> Null] }
              \cup { [token |-> Some(t), doctorName |-> Some(n),
                      doctorId |-> Some(NumToStr(i))] :
                       t \in Tokens, n \in DoctorNames, i \in DoctorIds }

\* The browser is about to load one of `starts`; storage holds what earlier
\* visits left.
InitAt(starts) ==
  /\ page = NoPage
  /\ nav \in starts
  /\ \E s \in Sessions :
       token = s.token /\ doctorName = s.doctorName /\ doctorId = s.doctorId
  /\ theme \in {Null} \cup { Some(t) : t \in Themes }
  /\ dataTheme = "light"
  /\ userName = Null
  /\ formShown = "login"
  /\ btnDisabled = [f \in Forms |-> FALSE]
  /\ btnLoader = [f \in Forms |-> FALSE]
  /\ net = EmptyBag
  /\ redirectTimers = 0
  /\ alerts = <<>>
  /\ selectedFile = Null /\ fileInputValue = Null
  /\ previewActive = FALSE /\ previewSrc = Null /\ reads = EmptyBag
  /\ results = Null
  /\ rows = <<>> /\ searchReady = FALSE /\ modals = <<>>
  /\ stats = Null /\ recentRows = <<>>
  /\ saved = {}

Init == InitAt(Pages)

\* ------------------------------------------------------------ page loads
\* The pending navigation completes: the old document, its requests and its
\* timers are gone, and the new document's DOMContentLoaded handler runs.

\* Fault: the entry page redirects to the dashboard whatever storage holds.
LoadIndexM ==
  /\ nav = "index"
  /\ page' = "index"
  /\ FreshDocument
  /\ dataTheme' = initTheme
  /\ userName' = Null
  /\ net' = EmptyBag
  /\ nav' = "dashboard"
  /\ UNCHANGED <<storageVars, saved>>

\* index.html: initTheme(); setupFormSwitching(); listeners;
\* if (localStorage.getItem("token")) location.href = "dashboard.html"
LoadIndex ==
  /\ nav = "index"
  /\ page' = "index"
  /\ FreshDocument
  /\ dataTheme' = initTheme
  /\ userName' = Null
  /\ net' = EmptyBag
  /\ nav' = IF Truthy(token) THEN "dashboard" ELSE NoNav
  /\ UNCHANGED <<storageVars, saved>>

\* analysis.html: initTheme(); initAnalysisPage() { checkAuth();
\* setupFileUpload(); setupPatientForm(); updateUserInfo(); }
LoadAnalysis ==
  /\ nav = "analysis"
  /\ page' = "analysis"
  /\ FreshDocument
  /\ dataTheme' = initTheme
  /\ nav' = checkAuth.href
  /\ userName' = updateUserInfo
  /\ net' = EmptyBag
  /\ UNCHANGED <<storageVars, saved>>

\* loadAllRecords() up to its await.
loadAllRecords == Req("records", "/api/records", getAuthHeaders, NoArg)

\* records.html: initTheme(); initRecordsPage() { checkAuth();
\* updateUserInfo(); await loadAllRecords(); ... }
LoadRecords ==
  /\ nav = "records"
  /\ page' = "records"
  /\ FreshDocument
  /\ dataTheme' = initTheme
  /\ nav' = checkAuth.href
  /\ userName' = updateUserInfo
  /\ net' = SetToBag({loadAllRecords})
  /\ UNCHANGED <<storageVars, saved>>

\* loadStatistics() up to its await.
loadStatistics == Req("stats", "/api/stats", getAuthHeaders, NoArg)

\* dashboard.html: initTheme(); initDashboard() { const token = checkAuth();
\* if (!token) return; ...; await loadStatistics(); ... }
LoadDashboard ==
  /\ nav = "dashboard"
  /\ page' = "dashboard"
  /\ FreshDocument
  /\ dataTheme' = initTheme
  /\ nav' = checkAuth.href
  /\ IF checkAuth.ret = Null
       THEN userName' = Null /\ net' = EmptyBag
       ELSE userName' = updateUserInfo /\ net' = SetToBag({loadStatistics})
  /\ UNCHANGED <<storageVars, saved>>

\* ------------------------------------------------------- theme and logout
\* Fault: the theme toggles to dark only.
nextThemeM(current) == "dark"

\* const next = current === "light" ? "dark" : "light"
nextTheme(current) == IF current = "light" THEN "dark" ELSE "light"

\* Fault: toggleTheme() without localStorage.setItem("theme", next).
toggleThemeM ==
  /\ page \in Pages
  /\ dataTheme' = nextTheme(dataTheme)
  /\ UNCHANGED <<page, nav, storageVars, userName, formVars, net, redirectTimers,
                 alerts, uploadVars, results, recordsVars, dashVars, saved>>

\* toggleTheme(), bound to #themeToggle on every page.
toggleTheme ==
  /\ page \in Pages
  /\ dataTheme' = nextTheme(dataTheme)
  /\ theme' = Some(nextTheme(dataTheme))
  /\ UNCHANGED <<page, nav, sessionVars, userName, formVars, net, redirectTimers,
                 alerts, uploadVars, results, recordsVars, dashVars, saved>>

\* Fault: handleLogout() without removeItem("doctorId").
handleLogoutM ==
  /\ page \in Protected
  /\ token' = Null
  /\ doctorName' = Null
  /\ nav' = "index"
  /\ UNCHANGED <<page, doctorId, theme, dataTheme, userName, formVars, net,
                 redirectTimers, alerts, uploadVars, results, recordsVars, dashVars,
                 saved>>

\* handleLogout(), bound to #logoutBtn on the protected pages.
handleLogout ==
  /\ page \in Protected
  /\ token' = Null
  /\ doctorName' = Null
  /\ doctorId' = Null
  /\ nav' = "index"
  /\ UNCHANGED <<page, theme, dataTheme, userName, formVars, net, redirectTimers,
                 alerts, uploadVars, results, recordsVars, dashVars, saved>>

\* ------------------------------------------------------------ entry page
\* Fault: the loader is switched but the button is never disabled.
SetBtnM(form, on) ==
  /\ btnDisabled' = btnDisabled
  /\ btnLoader' = [btnLoader EXCEPT ![form] = on]

SetBtn(form, on) ==
  /\ btnDisabled' = [btnDisabled EXCEPT ![form] = on]
  /\ btnLoader' = [btnLoader EXCEPT ![form] = on]

\* A reply whose body was read as JSON with a success status.
Parsed(resp) == resp.recv /\ resp.json
Success(resp) == Parsed(resp) /\ Ok(resp)

\* What the login / register / analyze handlers show for a reply that is not
\* a parsed success: the else branch (data.detail || fallback) when the body
\* parsed, the catch branch when fetch or response.json() rejected.
FailureText(resp, fallback) ==
  IF Parsed(resp) THEN DetailOr(resp.data, fallback) ELSE MsgNetwork

\* setupFormSwitching(): click on #showRegister / #showLogin.
showForm(form) ==
  /\ page = "index"
  /\ formShown # form
  /\ formShown' = form
  /\ alerts' = <<>>
  /\ UNCHANGED <<page, nav, storageVars, dataTheme, userName, btnDisabled, btnLoader,
                 net, redirectTimers, uploadVars, results, recordsVars, dashVars, saved>>

\* handleLogin(e) up to its await: the submit event of #loginForm.  A disabled
\* submit button blocks the form's submission.
handleLogin ==
  /\ page = "index"
  /\ formShown = "login"
  /\ ~btnDisabled["login"]
  /\ Room
  /\ SetBtn("login", TRUE)
  /\ net' = Send(Req("login", "/api/auth/login", JsonOnly, NoArg))
  /\ UNCHANGED <<page, nav, storageVars, dataTheme, userName, formShown,
                 redirectTimers, alerts, uploadVars, results, recordsVars, dashVars,
                 saved>>

\* Fault: the success branch without setItem("doctorId", ...).
storeSessionM(data, msg) ==
  /\ redirectTimers < MaxTimers
  /\ token' = StoredStr(data.access_token)
  /\ doctorName' = StoredStr(data.doctor_name)
  /\ doctorId' = doctorId
  /\ showAlert(msg, "success")
  /\ redirectTimers' = redirectTimers + 1

\* The success branch of handleLogin / handleRegister: the three setItem
\* calls, the notification, setTimeout(redirect, 1000).
storeSession(data, msg) ==
  /\ redirectTimers < MaxTimers
  /\ token' = StoredStr(data.access_token)
  /\ doctorName' = StoredStr(data.doctor_name)
  /\ doctorId' = StoredNum(data.doctor_id)
  /\ showAlert(msg, "success")
  /\ redirectTimers' = redirectTimers + 1

\* handleLogin(e) from the reply on: response.json(), the branches, finally.
handleLoginReply(r, resp) ==
  /\ r \in Pending("login")
  /\ net' = Done(r)
  /\ IF Success(resp)
       THEN storeSession(resp.data, MsgLoginOk)
       ELSE /\ showAlert(FailureText(resp, MsgLoginFail), "error")
            /\ UNCHANGED <<token, doctorName, doctorId, redirectTimers>>
  /\ SetBtn("login", FALSE)
  /\ UNCHANGED <<page, nav, theme, dataTheme, userName, formShown, uploadVars,
                 results, recordsVars, dashVars, saved>>

\* Lengths of the password typed into the register form.
PasswordLengths == {0, 7, 8, 9}

\* Fault: handleRegister(e) without the password length check.
handleRegisterM(len) ==
  /\ page = "index"
  /\ formShown = "register"
  /\ ~btnDisabled["register"]
  /\ Room
  /\ SetBtn("register", TRUE)
  /\ net' = Send(Req("register", "/api/auth/register", JsonOnly, NoArg))
  /\ UNCHANGED <<page, nav, storageVars, dataTheme, userName, formShown,
                 redirectTimers, alerts, uploadVars, results, recordsVars, dashVars,
                 saved>>

\* handleRegister(e) up to its await, with the password length check.
handleRegister(len) ==
  /\ page = "index"
  /\ formShown = "register"
  /\ ~btnDisabled["register"]
  /\ IF len < 8
       THEN /\ showAlert(MsgPassword, "error")
            /\ SetBtn("register", FALSE)
            /\ UNCHANGED net
       ELSE /\ Room
            /\ SetBtn("register", TRUE)
            /\ net' = Send(Req("register", "/api/auth/register", JsonOnly, NoArg))
            /\ UNCHANGED alerts
  /\ UNCHANGED <<page, nav, storageVars, dataTheme, userName, formShown,
                 redirectTimers, uploadVars, results, recordsVars, dashVars, saved>>

\* handleRegister(e) from the reply on.
handleRegisterReply(r, resp) ==
  /\ r \in Pending("register")
  /\ net' = Done(r)
  /\ IF Success(resp)
       THEN storeSession(resp.data, MsgRegisterOk)
       ELSE /\ showAlert(FailureText(resp, MsgRegisterFail), "error")
            /\ UNCHANGED <<token, doctorName, doctorId, redirectTimers>>
  /\ SetBtn("register", FALSE)
  /\ UNCHANGED <<page, nav, theme, dataTheme, userName, formShown, uploadVars,
                 results, recordsVars, dashVars, saved>>

\* setTimeout(() => { window.location.href = "dashboard.html" }, 1000)
redirectTimeout ==
  /\ redirectTimers > 0
  /\ redirectTimers' = redirectTimers - 1
  /\ nav' = "dashboard"
  /\ UNCHANGED <<page, storageVars, dataTheme, userName, formVars, net, alerts,
                 uploadVars, results, recordsVars, dashVars, saved>>

\* --------------------------------------------------------- analysis page
\* Fault: handleFileSelect(file) without the MIME type test.
handleFileSelectM(file) ==
  IF file = Null
    THEN UNCHANGED <<selectedFile, reads, alerts>>
    ELSE /\ BagCardinality(reads) < MaxReads
         /\ selectedFile' = file
         /\ reads' = reads (+) SetToBag({file[1]})
         /\ UNCHANGED alerts

\* handleFileSelect(file): file is Null when the change/drop carries no file.
handleFileSelect(file) ==
  IF file = Null
    THEN UNCHANGED <<selectedFile, reads, alerts>>
    ELSE IF ~IsImage(file[1])
      THEN /\ showAlert(MsgNotImage, "error")
           /\ UNCHANGED <<selectedFile, reads>>
      ELSE /\ BagCardinality(reads) < MaxReads
           /\ selectedFile' = file
           /\ reads' = reads (+) SetToBag({file[1]})
           /\ UNCHANGED alerts

\* change event of #fileInput: the browser has put the chosen file (or none)
\* into the input, then handleFileSelect(e.target.files[0]).
fileInputChange(file) ==
  /\ page = "analysis"
  /\ fileInputValue' = file
  /\ handleFileSelect(file)
  /\ UNCHANGED <<page, nav, storageVars, dataTheme, userName, formVars, net,
                 redirectTimers, previewActive, previewSrc, results, recordsVars,
                 dashVars, saved>>

\* drop event of #uploadArea: handleFileSelect(e.dataTransfer.files[0]).
uploadAreaDrop(file) ==
  /\ page = "analysis"
  /\ handleFileSelect(file)
  /\ UNCHANGED <<page, nav, storageVars, dataTheme, userName, formVars, net,
                 redirectTimers, fileInputValue, previewActive, previewSrc, results,
                 recordsVars, dashVars, saved>>

\* reader.onload: the preview shows the file that reader was given.
readerOnload(file) ==
  /\ BagIn(file, reads)
  /\ reads' = reads (-) SetToBag({file})
  /\ previewSrc' = Some(DataURL(file))
  /\ previewActive' = TRUE
  /\ UNCHANGED <<page, nav, storageVars, dataTheme, userName, formVars, net,
                 redirectTimers, alerts, selectedFile, fileInputValue, results,
                 recordsVars, dashVars, saved>>

\* Fault: the remove handler without fileInput.value = "".
removeImageM ==
  /\ page = "analysis"
  /\ selectedFile' = Null
  /\ previewActive' = FALSE
  /\ UNCHANGED <<page, nav, storageVars, dataTheme, userName, formVars, net,
                 redirectTimers, alerts, fileInputValue, previewSrc, reads, results,
                 recordsVars, dashVars, saved>>

\* click on #removeImage
removeImage ==
  /\ page = "analysis"
  /\ selectedFile' = Null
  /\ fileInputValue' = Null
  /\ previewActive' = FALSE
  /\ UNCHANGED <<page, nav, storageVars, dataTheme, userName, formVars, net,
                 redirectTimers, alerts, previewSrc, reads, results, recordsVars,
                 dashVars, saved>>

\* The colour displayResults gives the severity.
severityColor(severity) ==
  IF severity = "Severe" THEN "var(--danger)"
  ELSE IF severity = "Moderate" THEN "var(--warning)"
  ELSE IF severity = "Mild" THEN "var(--secondary)"
  ELSE "var(--info)"

\* displayResults(data): the rendered results section.
displayResults(data) ==
  Some([severity |-> data.severity,
        color |-> severityColor(data.severity),
        download |-> data.analysis_id,
        heatmap |-> "/api/image/gradcam/" \o NumToStr(data.analysis_id)])

\* The checkboxes input[name="symptoms"] of #patientForm, in document order.
SymptomBoxes == <<"Cough", "Fever", "Chest pain">>
\* What the user can have typed into a vital sign input, "" when left blank.
VitalValues == {"", "0", "98.6"}
\* What the user can have typed into the medical history textarea.
HistoryValues == {"", "Asthma"}

\* One filled-in form: two symptoms checked, a history, two vital signs.
SampleForm ==
  [patient_name |-> "Jane Doe", patient_age |-> "54", patient_gender |-> "Female",
   symptoms |-> <<TRUE, FALSE, TRUE>>, medical_history |-> "Asthma",
   temperature |-> "98.6", oxygen_saturation |-> "", heart_rate |-> "0",
   respiratory_rate |-> ""]

\* The contents of #patientForm at submit the model draws from: every
\* combination of the four vital sign inputs, every combination of checked
\* symptoms, and the history blank or filled; symptoms[k] says whether the
\* k-th checkbox is checked.
AnalyzeForms ==
  { [SampleForm EXCEPT !.temperature = t, !.oxygen_saturation = o,
                       !.heart_rate = h, !.respiratory_rate = r] :
      t \in VitalValues, o \in VitalValues, h \in VitalValues, r \in VitalValues }
    \cup { [SampleForm EXCEPT !.symptoms = c] : c \in [DOMAIN SymptomBoxes -> BOOLEAN] }
    \cup { [SampleForm EXCEPT !.medical_history = m] : m \in HistoryValues }

\* querySelectorAll('input[name="symptoms"]:checked').forEach(push cb.value)
RECURSIVE CheckedFrom(_, _)
CheckedFrom(boxes, k) ==
  IF k > Len(SymptomBoxes) THEN <<>>
  ELSE (IF boxes[k] THEN <<SymptomBoxes[k]>> ELSE <<>>) \o CheckedFrom(boxes, k + 1)

\* Fault: only the first element is taken.
joinM(seq, sep) == IF seq = <<>> THEN "" ELSE seq[1]

\* Array.prototype.join on strings
RECURSIVE join(_, _)
join(seq, sep) ==
  IF seq = <<>> THEN ""
  ELSE IF Len(seq) = 1 THEN seq[1]
  ELSE seq[1] \o sep \o join(Tail(seq), sep)

\* a || b on strings
StrOr(a, b) == IF a # "" THEN a ELSE b

\* Fault: the field is appended whatever its value.
AppendIfM(name, value) == <<<<name, value>>>>

\* if (form.<name>.value) formData.append(name, form.<name>.value)
AppendIf(name, value) == IF value # "" THEN <<<<name, value>>>> ELSE <<>>

\* The FormData handleAnalyze builds: its entries in append order.
formData(form, file) ==
  << <<"image", file.name>>,
     <<"patient_name", form.patient_name>>,
     <<"patient_age", form.patient_age>>,
     <<"patient_gender", form.patient_gender>>,
     <<"symptoms", StrOr(join(CheckedFrom(form.symptoms, 1), ", "), "None reported")>>,
     <<"medical_history", StrOr(form.medical_history, "")>> >>
    \o AppendIf("temperature", form.temperature)
    \o AppendIf("oxygen_saturation", form.oxygen_saturation)
    \o AppendIf("heart_rate", form.heart_rate)
    \o AppendIf("respiratory_rate", form.respiratory_rate)

\* Fault: the button is put into its loading state before the file check.
handleAnalyzeM(form) ==
  /\ page = "analysis"
  /\ ~btnDisabled["analyze"]
  /\ SetBtn("analyze", TRUE)
  /\ IF selectedFile = Null
       THEN /\ showAlert(MsgNoFile, "error")
            /\ UNCHANGED net
       ELSE /\ Room
            /\ net' = Send(Req("analyze", "/api/analyze", BearerOnly,
                               [Arg(0, selectedFile) EXCEPT
                                  !.body = formData(form, selectedFile[1])]))
            /\ UNCHANGED alerts
  /\ UNCHANGED <<page, nav, storageVars, dataTheme, userName, formShown,
                 redirectTimers, uploadVars, results, recordsVars, dashVars, saved>>

\* handleAnalyze(e) up to its await: the submit event of #patientForm, form
\* being what the user has filled in.
handleAnalyze(form) ==
  /\ page = "analysis"
  /\ ~btnDisabled["analyze"]
  /\ IF selectedFile = Null
       THEN /\ showAlert(MsgNoFile, "error")
            /\ UNCHANGED <<btnDisabled, btnLoader, net>>
       ELSE /\ Room
            /\ SetBtn("analyze", TRUE)
            /\ net' = Send(Req("analyze", "/api/analyze", BearerOnly,
                               [Arg(0, selectedFile) EXCEPT
                                  !.body = formData(form, selectedFile[1])]))
            /\ UNCHANGED alerts
  /\ UNCHANGED <<page, nav, storageVars, dataTheme, userName, formShown,
                 redirectTimers, uploadVars, results, recordsVars, dashVars, saved>>

\* Fault: the button is restored in the try block instead of finally.
handleAnalyzeReplyM(r, resp) ==
  /\ r \in Pending("analyze")
  /\ net' = Done(r)
  /\ IF Success(resp)
       THEN /\ results' = displayResults(resp.data)
            /\ showAlert(MsgAnalyzeOk, "success")
            /\ SetBtn("analyze", FALSE)
       ELSE /\ showAlert(FailureText(resp, MsgAnalyzeFail), "error")
            /\ UNCHANGED <<results, btnDisabled, btnLoader>>
  /\ UNCHANGED <<page, nav, storageVars, dataTheme, userName, formShown,
                 redirectTimers, uploadVars, recordsVars, dashVars, saved>>

\* handleAnalyze(e) from the reply on: response.json(), the branches, finally.
handleAnalyzeReply(r, resp) ==
  /\ r \in Pending("analyze")
  /\ net' = Done(r)
  /\ IF Success(resp)
       THEN /\ results' = displayResults(resp.data)
            /\ showAlert(MsgAnalyzeOk, "success")
       ELSE /\ showAlert(FailureText(resp, MsgAnalyzeFail), "error")
            /\ UNCHANGED results
  /\ SetBtn("analyze", FALSE)
  /\ UNCHANGED <<page, nav, storageVars, dataTheme, userName, formShown,
                 redirectTimers, uploadVars, recordsVars, dashVars, saved>>

\* --------------------------------------------------------- report download
\* The ids a download button on the current page is bound to: the results
\* section of the analysis page, the open modals of the records page.
DownloadButtons ==
  IF page = "analysis" THEN (IF results = Null THEN {} ELSE {results[1].download})
  ELSE IF page = "records" THEN { modals[k].download : k \in DOMAIN modals }
  ELSE {}

\* window.downloadReport(analysisId) up to its await.
downloadReport(id) ==
  /\ id \in DownloadButtons
  /\ Room
  /\ net' = Send(Req("download", "/api/download/report/" \o NumToStr(id), BearerOnly,
                     Arg(id, Null)))
  /\ UNCHANGED <<page, nav, storageVars, dataTheme, userName, formVars,
                 redirectTimers, alerts, uploadVars, results, recordsVars, dashVars,
                 saved>>

\* Fault: a failed download is requested again.
downloadReportReplyM(r, resp) ==
  /\ r \in Pending("download")
  /\ IF Ok(resp) /\ resp.json
       THEN /\ saved' = saved \cup {"medical_report_" \o NumToStr(r.arg.id) \o ".pdf"}
            /\ showAlert(MsgDownloadOk, "success")
            /\ net' = Done(r)
       ELSE /\ showAlert(MsgDownloadFail, "error")
            /\ UNCHANGED <<saved, net>>
  /\ UNCHANGED <<page, nav, storageVars, dataTheme, userName, formVars,
                 redirectTimers, uploadVars, results, recordsVars, dashVars>>

\* window.downloadReport(analysisId) from the reply on: response.blob() and
\* a.download = `medical_report_${analysisId}.pdf`, or the failure notification.
downloadReportReply(r, resp) ==
  /\ r \in Pending("download")
  /\ net' = Done(r)
  /\ IF Ok(resp) /\ resp.json
       THEN /\ saved' = saved \cup {"medical_report_" \o NumToStr(r.arg.id) \o ".pdf"}
            /\ showAlert(MsgDownloadOk, "success")
       ELSE /\ showAlert(MsgDownloadFail, "error")
            /\ UNCHANGED saved
  /\ UNCHANGED <<page, nav, storageVars, dataTheme, userName, formVars,
                 redirectTimers, uploadVars, results, recordsVars, dashVars>>

\* ----------------------------------------------------------- records page
\* severityClass of displayRecords, showRecordModal and displayRecentAnalyses.
severityClass(severity) ==
  IF severity = "Severe" THEN "danger"
  ELSE IF severity = "Moderate" THEN "warning"
  ELSE IF severity = "Mild" THEN "success"
  ELSE "info"

\* The empty-state row; its text begins "No records found".
EmptyRow ==
  [id |-> 0, severity |-> "", badge |-> "", visible |-> TRUE, empty |-> TRUE,
   text |-> <<"N", "o", " ", "r", "e", "c", "o", "r", "d", "s", " ", "f", "o", "u", "n", "d">>]

\* row.textContent: the text of the cells, the template's white space between
\* them.
rowText(record) == record.patient_name \o <<" ">> \o SeverityText(record.severity)

\* Fault: displayRecords(records) without the empty-state branch.
displayRecordsM(records) ==
  [k \in DOMAIN records |->
     [id |-> records[k].id, severity |-> records[k].severity,
      badge |-> severityClass(records[k].severity),
      visible |-> TRUE, empty |-> FALSE, text |-> rowText(records[k])]]

\* displayRecords(records): the rows of #recordsTable.
displayRecords(records) ==
  IF Len(records) = 0
    THEN <<EmptyRow>>
    ELSE [k \in DOMAIN records |->
            [id |-> records[k].id, severity |-> records[k].severity,
             badge |-> severityClass(records[k].severity),
             visible |-> TRUE, empty |-> FALSE, text |-> rowText(records[k])]]

\* The try / catch of loadAllRecords, viewRecordDetail: a rejected fetch or an
\* unreadable success body reaches the catch; a non-2xx reply reaches neither
\* branch.
Caught(resp) == ~resp.recv \/ (Ok(resp) /\ ~resp.json)

\* loadAllRecords() from the reply on, then setupSearch() of initRecordsPage.
loadAllRecordsReply(r, resp) ==
  /\ r \in Pending("records")
  /\ net' = Done(r)
  /\ IF Caught(resp)
       THEN showAlert(MsgRecordsFail, "error") /\ UNCHANGED rows
       ELSE IF Ok(resp)
         THEN rows' = displayRecords(resp.data.records) /\ UNCHANGED alerts
         ELSE UNCHANGED <<alerts, rows>>
  /\ searchReady' = TRUE
  /\ UNCHANGED <<page, nav, storageVars, dataTheme, userName, formVars,
                 redirectTimers, uploadVars, results, modals, dashVars, saved>>

\* String.prototype.toLowerCase on the letters A-Z.
UpperCase == <<"A", "B", "C", "D", "E", "F", "G", "H", "I", "J", "K", "L", "M", "N", "O", "P", "Q", "R", "S", "T", "U", "V", "W", "X", "Y", "Z">>
LowerCase == <<"a", "b", "c", "d", "e", "f", "g", "h", "i", "j", "k", "l", "m", "n", "o", "p", "q", "r", "s", "t", "u", "v", "w", "x", "y", "z">>
toLowerCase(str) ==
  [i \in DOMAIN str |->
     IF \E n \in DOMAIN UpperCase : UpperCase[n] = str[i]
       THEN LowerCase[CHOOSE n \in DOMAIN UpperCase : UpperCase[n] = str[i]]
       ELSE str[i]]

\* String.prototype.includes
includes(str, search) ==
  \E i \in 0..(Len(str) - Len(search)) : SubSeq(str, i + 1, i + Len(search)) = search

\* What the user can have typed into #searchRecords.
Queries == { <<>>, <<"j", "a", "n", "e">>, <<"J", "O", "H", "N">>, <<"o">>, <<"s", "e", "v", "e", "r", "e">>, <<"f", "o", "u", "n", "d">>, <<"z", "z">> }

\* Fault: the row text is not lower-cased.
searchInputM(term) ==
  /\ page = "records"
  /\ searchReady
  /\ rows' = [k \in DOMAIN rows |->
               [rows[k] EXCEPT !.visible = includes(rows[k].text, toLowerCase(term))]]
  /\ UNCHANGED <<page, nav, storageVars, dataTheme, userName, formVars, net,
                 redirectTimers, alerts, uploadVars, results, searchReady, modals,
                 dashVars, saved>>

\* input event of #searchRecords, term being e.target.value; before
\* setupSearch() has run the event has no listener.
searchInput(term) ==
  /\ page = "records"
  /\ searchReady
  /\ rows' = [k \in DOMAIN rows |->
               [rows[k] EXCEPT !.visible =
                  includes(toLowerCase(rows[k].text), toLowerCase(term))]]
  /\ UNCHANGED <<page, nav, storageVars, dataTheme, userName, formVars, net,
                 redirectTimers, alerts, uploadVars, results, searchReady, modals,
                 dashVars, saved>>

\* click on a row: viewRecordDetail(record.id) up to its await.
viewRecordDetail(k) ==
  /\ page = "records"
  /\ k \in DOMAIN rows
  /\ ~rows[k].empty /\ rows[k].visible
  /\ Room
  /\ net' = Send(Req("detail", "/api/records/" \o NumToStr(rows[k].id), getAuthHeaders,
                     Arg(rows[k].id, Null)))
  /\ UNCHANGED <<page, nav, storageVars, dataTheme, userName, formVars,
                 redirectTimers, alerts, uploadVars, results, recordsVars, dashVars,
                 saved>>

\* JS truthiness of an optional number.
TruthyNum(x) == x # Null /\ x[1] # 0

\* The vital signs a modal displays (vitalSigns.<name> ? ... : ""), and
\* hasVitals, the || of the four.
shownVitals(vitalSigns) == { v \in VitalNames : TruthyNum(vitalSigns[v]) }
hasVitals(vitalSigns) == \E v \in VitalNames : TruthyNum(vitalSigns[v])

\* Fault: the download button is bound to the first record, not to analysisId.
showRecordModalM(data, analysisId) ==
  [id |-> analysisId, severity |-> data.severity,
   badge |-> severityClass(data.severity), download |-> 1,
   vitals |-> shownVitals(data.vital_signs), section |-> hasVitals(data.vital_signs)]

\* showRecordModal(data, analysisId): the modal appended to the body.
showRecordModal(data, analysisId) ==
  [id |-> analysisId, severity |-> data.severity,
   badge |-> severityClass(data.severity), download |-> analysisId,
   vitals |-> shownVitals(data.vital_signs), section |-> hasVitals(data.vital_signs)]

\* The badge class the second definition of showRecordModal computes inline.
modalBadge(severity) ==
  IF severity = "Severe" THEN "danger"
  ELSE IF severity = "Moderate" THEN "warning"
  ELSE "success"

\* The second definition of showRecordModal(data, analysisId) in the
\* repository.
showRecordModal2(data, analysisId) ==
  [id |-> analysisId, severity |-> data.severity,
   badge |-> modalBadge(data.severity), download |-> analysisId,
   vitals |-> shownVitals(data.vital_signs), section |-> hasVitals(data.vital_signs)]

\* The modal either definition builds: which of the two copies of the
\* records script the page runs is not fixed by the sources.
RecordModals(data, analysisId) ==
  {showRecordModal(data, analysisId), showRecordModal2(data, analysisId)}

\* viewRecordDetail(analysisId) from the reply on.
viewRecordDetailReply(r, resp) ==
  /\ r \in Pending("detail")
  /\ net' = Done(r)
  /\ IF Caught(resp)
       THEN showAlert(MsgDetailFail, "error") /\ UNCHANGED modals
       ELSE IF Ok(resp)
         THEN /\ Len(modals) < MaxModals
              /\ \E modal \in RecordModals(resp.data, r.arg.id) :
                   modals' = Append(modals, modal)
              /\ UNCHANGED alerts
         ELSE UNCHANGED <<alerts, modals>>
  /\ UNCHANGED <<page, nav, storageVars, dataTheme, userName, formVars,
                 redirectTimers, uploadVars, results, rows, searchReady, dashVars,
                 saved>>

\* The close buttons / outside click of a modal: modal.remove().
closeModal(k) ==
  /\ k \in DOMAIN modals
  /\ modals' = [j \in 1..(Len(modals) - 1) |-> IF j < k THEN modals[j] ELSE modals[j + 1]]
  /\ UNCHANGED <<page, nav, storageVars, dataTheme, userName, formVars, net,
                 redirectTimers, alerts, uploadVars, results, rows, searchReady,
                 dashVars, saved>>

\* -------------------------------------------------------------- dashboard
\* loadRecentAnalyses() up to its await.
loadRecentAnalyses == Req("recent", "/api/records", getAuthHeaders, NoArg)

\* Math.round(85 + Math.random() * 10)
Accuracies == 85..95

\* loadStatistics() from the reply on, then loadRecentAnalyses() of
\* initDashboard up to its await.  A failure is logged to the console only.
loadStatisticsReply(r, resp, accuracy) ==
  /\ r \in Pending("stats")
  /\ IF Ok(resp) /\ resp.json
       THEN stats' = Some([total |-> resp.data.total_analyses,
                           recent |-> resp.data.recent_count,
                           accuracy |-> IF resp.data.total_analyses > 0
                                          THEN accuracy ELSE 0])
       ELSE UNCHANGED stats
  /\ net' = Done(r) (+) SetToBag({loadRecentAnalyses})
  /\ UNCHANGED <<page, nav, storageVars, dataTheme, userName, formVars,
                 redirectTimers, alerts, uploadVars, results, recordsVars, recentRows,
                 saved>>

\* displayRecentAnalyses(records): the rows of #recentAnalyses.
displayRecentAnalyses(records) ==
  IF Len(records) = 0
    THEN <<EmptyRow>>
    ELSE [k \in DOMAIN records |->
            [id |-> records[k].id, severity |-> records[k].severity,
             badge |-> severityClass(records[k].severity),
             visible |-> TRUE, empty |-> FALSE, text |-> rowText(records[k])]]

\* data.records.slice(0, 5)
Slice5(records) == SubSeq(records, 1, IF Len(records) < 5 THEN Len(records) ELSE 5)

\* loadRecentAnalyses() from the reply on.  A failure is logged to the
\* console only.
loadRecentAnalysesReply(r, resp) ==
  /\ r \in Pending("recent")
  /\ net' = Done(r)
  /\ IF Ok(resp) /\ resp.json
       THEN recentRows' = displayRecentAnalyses(Slice5(resp.data.records))
       ELSE UNCHANGED recentRows
  /\ UNCHANGED <<page, nav, storageVars, dataTheme, userName, formVars,
                 redirectTimers, alerts, uploadVars, results, recordsVars, stats,
                 saved>>

\* click on a row of #recentAnalyses: location.href = `records.html?id=...`
recentRowClick(k) ==
  /\ page = "dashboard"
  /\ k \in DOMAIN recentRows
  /\ ~recentRows[k].empty
  /\ nav' = "records"
  /\ UNCHANGED <<page, storageVars, dataTheme, userName, formVars, net,
                 redirectTimers, alerts, uploadVars, results, recordsVars, dashVars,
                 saved>>

\* ------------------------------------------------------------------ system
FileInputs == {Null} \cup { Some(f) : f \in Files }

\* The tasks of the entry page, against every reply the auth service can give.
EntryTasks ==
  \/ \E form \in {"login", "register"} : showForm(form)
  \/ handleLogin
  \/ \E r \in Pending("login") : \E resp \in AuthReplies : handleLoginReply(r, resp)
  \/ \E len \in PasswordLengths : handleRegister(len)
  \/ \E r \in Pending("register") : \E resp \in AuthReplies : handleRegisterReply(r, resp)
  \/ redirectTimeout

\* The submission of the analysis form, against every reply of /api/analyze.
AnalyzeTasks ==
  \/ \E file \in FileInputs : uploadAreaDrop(file)
  \/ \E file \in Files : readerOnload(file)
  \/ handleAnalyze(SampleForm)
  \/ \E r \in Pending("analyze") : \E resp \in AnalyzeReplies : handleAnalyzeReply(r, resp)

\* The entry page against every reply the auth service can give, up to the
\* load of the dashboard it redirects to.
NextEntry ==
  \/ LoadIndex
  \/ LoadDashboard
  \/ EntryTasks
  \/ alertTimeout

SpecEntry == InitAt({"index"}) /\ [][NextEntry]_vars

\* The event loop runs every continuation and timer callback that is due, and
\* a pending navigation completes.
FairEntry ==
  /\ SpecEntry
  /\ WF_vars(LoadIndex) /\ WF_vars(LoadDashboard)
  /\ WF_vars(redirectTimeout)
  /\ WF_vars(alertTimeout)
  /\ SF_vars(\E r \in Pending("login") : \E resp \in AuthReplies : handleLoginReply(r, resp))
  /\ SF_vars(\E r \in Pending("register") : \E resp \in AuthReplies :
               handleRegisterReply(r, resp))

\* The analysis page's submission against every reply of /api/analyze.
NextAnalyze ==
  \/ LoadAnalysis
  \/ AnalyzeTasks
  \/ alertTimeout

SpecAnalyze == InitAt({"analysis"}) /\ [][NextAnalyze]_vars

\* As above; a continuation can be held back only by the bound on visible
\* notifications, hence strong fairness for it.
FairAnalyze ==
  /\ SpecAnalyze
  /\ WF_vars(LoadAnalysis)
  /\ WF_vars(alertTimeout)
  /\ SF_vars(\E r \in Pending("analyze") : \E resp \in AnalyzeReplies :
               handleAnalyzeReply(r, resp))

\* The form handlers (login, register, analyze) against the full environment:
\* the entry page and the analysis page, with the navigation between them.
NextForms ==
  \/ LoadIndex
  \/ LoadAnalysis
  \/ LoadDashboard
  \/ EntryTasks
  \/ AnalyzeTasks
  \/ handleLogout
  \/ alertTimeout

SpecForms == InitAt({"index", "analysis"}) /\ [][NextForms]_vars

\* The event loop runs every continuation and timer callback that is due, and
\* a pending navigation completes.  A continuation can be held back only by
\* the bound on visible notifications, hence strong fairness for it.
FairForms ==
  /\ SpecForms
  /\ WF_vars(LoadIndex) /\ WF_vars(LoadAnalysis) /\ WF_vars(LoadDashboard)
  /\ WF_vars(redirectTimeout)
  /\ WF_vars(alertTimeout)
  /\ SF_vars(\E r \in Pending("login") : \E resp \in AuthReplies : handleLoginReply(r, resp))
  /\ SF_vars(\E r \in Pending("register") : \E resp \in AuthReplies :
               handleRegisterReply(r, resp))
  /\ SF_vars(\E r \in Pending("analyze") : \E resp \in AnalyzeReplies :
               handleAnalyzeReply(r, resp))

\* The file selection of the analysis page: browse, drop, the FileReader
\* callbacks and the remove button, with every file the user can pick.
UploadTasks ==
  \/ \E file \in FileInputs : fileInputChange(file)
  \/ \E file \in FileInputs : uploadAreaDrop(file)
  \/ \E file \in Files : readerOnload(file)
  \/ removeImage

NextUpload ==
  \/ LoadAnalysis
  \/ UploadTasks
  \/ alertTimeout

SpecUpload == InitAt({"analysis"}) /\ [][NextUpload]_vars

\* The replies whose record, if any, holds no vital sign.
WithoutVitals(replies) ==
  { resp \in replies :
      "vital_signs" \in DOMAIN resp.data => \A v \in VitalNames : resp.data.vital_signs[v] = Null }

\* The records page against every reply of the records service, the records
\* without vital signs.
NextRecords ==
  \/ LoadRecords
  \/ \E r \in Pending("records") : \E resp \in RecordsReplies : loadAllRecordsReply(r, resp)
  \/ \E k \in 1..MaxRecords : viewRecordDetail(k)
  \/ \E r \in Pending("detail") : \E resp \in WithoutVitals(DetailReplies) :
       viewRecordDetailReply(r, resp)
  \/ \E k \in 1..MaxModals : closeModal(k)
  \/ alertTimeout

SpecRecords == InitAt({"records"}) /\ [][NextRecords]_vars

\* The records table: its load against every reply of the records service
\* and the search box with every query.
NextTable ==
  \/ LoadRecords
  \/ \E r \in Pending("records") : \E resp \in RecordsReplies : loadAllRecordsReply(r, resp)
  \/ \E term \in Queries : searchInput(term)
  \/ alertTimeout

SpecTable == InitAt({"records"}) /\ [][NextTable]_vars

\* The record detail view: one record listed, its detail with every
\* combination of vital signs.
NextDetail ==
  \/ LoadRecords
  \/ \E r \in Pending("records") :
       loadAllRecordsReply(r, Reply(200, TRUE,
         [detail |-> Null,
          records |-> <<[id |-> 1, severity |-> "Severe", patient_name |-> PatientNames[1]]>>]))
  \/ viewRecordDetail(1)
  \/ \E r \in Pending("detail") : \E vs \in [VitalNames -> VitalReadings] :
       viewRecordDetailReply(r, Reply(200, TRUE,
         [detail |-> Null, severity |-> "Severe", vital_signs |-> vs]))
  \/ \E k \in 1..MaxModals : closeModal(k)

SpecDetail == InitAt({"records"}) /\ [][NextDetail]_vars

\* A sample of the environment for the whole client: per endpoint a network
\* failure, a 401 with a detail, a 500 with an unreadable body and the
\* successes whose severities are all "Severe" and whose records hold no
\* vital signs; one image file, one search query.
SampleDetail == "Could not validate credentials"
PlainData(d) ==
  /\ "severity" \in DOMAIN d => d.severity = "Severe"
  /\ "records" \in DOMAIN d => \A k \in DOMAIN d.records : d.records[k].severity = "Severe"
  /\ "vital_signs" \in DOMAIN d => \A v \in VitalNames : d.vital_signs[v] = Null
Sample(replies) ==
  { resp \in replies :
      \/ ~resp.recv
      \/ resp.status = 200 /\ resp.json /\ PlainData(resp.data)
      \/ resp.status = 401 /\ resp.json /\ resp.data.detail = Some(SampleDetail)
      \/ resp.status = 500 /\ ~resp.json }
SampleFile == CHOOSE f \in Files : f.name = "xray1"

\* The four pages with their theme toggle and the navigation between them:
\* the load-time redirects, logout, and the sign-in that leads from the entry
\* page to the dashboard.
NextPages ==
  \/ LoadIndex
  \/ LoadAnalysis
  \/ LoadRecords
  \/ LoadDashboard
  \/ toggleTheme
  \/ handleLogout
  \/ handleLogin
  \/ \E r \in Pending("login") : \E resp \in Sample(AuthReplies) : handleLoginReply(r, resp)
  \/ redirectTimeout
  \/ alertTimeout

SpecPages == Init /\ [][NextPages]_vars

\* A pending navigation completes.
FairPages ==
  /\ SpecPages
  /\ WF_vars(LoadIndex) /\ WF_vars(LoadAnalysis)
  /\ WF_vars(LoadRecords) /\ WF_vars(LoadDashboard)

\* The report download from the results section: analyses 1 and 42 come
\* back from /api/analyze, the download against every reply of the report
\* service.
NextDownload ==
  \/ LoadAnalysis
  \/ uploadAreaDrop(Some(SampleFile))
  \/ readerOnload(SampleFile)
  \/ handleAnalyze(SampleForm)
  \/ \E r \in Pending("analyze") : \E id \in {1, 42} :
       handleAnalyzeReply(r, Reply(200, TRUE, [detail |-> Null, analysis_id |-> id,
                                               severity |-> "Severe"]))
  \/ \E id \in {1, 42} : downloadReport(id)
  \/ \E r \in Pending("download") : \E resp \in DownloadReplies : downloadReportReply(r, resp)
  \/ alertTimeout

SpecDownload == InitAt({"analysis"}) /\ [][NextDownload]_vars

\* The analysis form with everything the user can fill in, one image and the
\* sampled replies.
NextSubmit ==
  \/ LoadAnalysis
  \/ uploadAreaDrop(Some(SampleFile))
  \/ readerOnload(SampleFile)
  \/ \E form \in AnalyzeForms : handleAnalyze(form)
  \/ \E r \in Pending("analyze") : \E resp \in Sample(AnalyzeReplies) :
       handleAnalyzeReply(r, resp)
  \/ alertTimeout

SpecSubmit == InitAt({"analysis"}) /\ [][NextSubmit]_vars

\* The views that carry an analysis id: the results section of the analysis
\* page and the detail modals of the records page, with their download
\* buttons, against the sampled replies.
NextViews ==
  \/ LoadAnalysis
  \/ LoadRecords
  \/ uploadAreaDrop(Some(SampleFile))
  \/ readerOnload(SampleFile)
  \/ handleAnalyze(SampleForm)
  \/ \E r \in Pending("analyze") : \E resp \in Sample(AnalyzeReplies) :
       handleAnalyzeReply(r, resp)
  \/ \E r \in Pending("records") : \E resp \in Sample(RecordsReplies) :
       loadAllRecordsReply(r, resp)
  \/ \E k \in 1..MaxRecords : viewRecordDetail(k)
  \/ \E r \in Pending("detail") : \E resp \in Sample(DetailReplies) :
       viewRecordDetailReply(r, resp)
  \/ \E k \in 1..MaxModals : closeModal(k)
  \/ \E id \in Ids : downloadReport(id)
  \/ \E r \in Pending("download") : \E resp \in Sample(DownloadReplies) :
       downloadReportReply(r, resp)
  \/ alertTimeout

SpecViews == InitAt({"analysis", "records"}) /\ [][NextViews]_vars

\* Every page of the client, against the sampled environment.
Next ==
  \/ LoadIndex
  \/ LoadAnalysis
  \/ LoadRecords
  \/ LoadDashboard
  \/ toggleTheme
  \/ handleLogout
  \/ alertTimeout
  \/ handleLogin
  \/ \E r \in Pending("login") : \E resp \in Sample(AuthReplies) : handleLoginReply(r, resp)
  \/ redirectTimeout
  \/ uploadAreaDrop(Some(SampleFile))
  \/ readerOnload(SampleFile)
  \/ handleAnalyze(SampleForm)
  \/ \E r \in Pending("analyze") : \E resp \in Sample(AnalyzeReplies) :
       handleAnalyzeReply(r, resp)
  \/ \E id \in Ids : downloadReport(id)
  \/ \E r \in Pending("download") : \E resp \in Sample(DownloadReplies) :
       downloadReportReply(r, resp)
  \/ \E r \in Pending("records") : \E resp \in Sample(RecordsReplies) :
       loadAllRecordsReply(r, resp)
  \/ \E k \in 1..MaxRecords : viewRecordDetail(k)
  \/ \E r \in Pending("detail") : \E resp \in Sample(DetailReplies) :
       viewRecordDetailReply(r, resp)
  \/ searchInput(<<"j", "a", "n", "e">>)
  \/ \E k \in 1..MaxModals : closeModal(k)
  \/ \E r \in Pending("stats") : \E resp \in Sample(StatsReplies) : \E a \in Accuracies :
       loadStatisticsReply(r, resp, a)
  \/ \E r \in Pending("recent") : \E resp \in Sample(RecordsReplies) :
       loadRecentAnalysesReply(r, resp)
  \/ \E k \in 1..MaxRecords : recentRowClick(k)

Spec == Init /\ [][Next]_vars

\* ------------------------------------------------------------------ claims
\* Requests of one kind in flight, counted with multiplicity.
InFlight(kind) == BagCardinality([r \in Pending(kind) |-> CopiesIn(r, net)])
Last(seq) == seq[Len(seq)]
\* The task just run left a new notification with this text.
Shown(msg) ==
  /\ alerts' # <<>>
  /\ Last(alerts').msg = msg
  /\ page = "index" \/ Len(alerts') = Len(alerts) + 1
\* The task just run left a new notification, whatever its text.
Notified ==
  /\ alerts' # <<>>
  /\ page = "index" \/ Len(alerts') = Len(alerts) + 1

\* C1: on the analysis page at most one /api/analyze request is in flight at
\* any time, and while one is in flight the submit control is disabled and
\* the loading indicator is shown.
C1_SingleAnalyzeInFlight ==
  /\ InFlight("analyze") <= 1
  /\ InFlight("analyze") = 1 =>
       page = "analysis" /\ btnDisabled["analyze"] /\ btnLoader["analyze"]

\* C1 witness: a request is in flight behind the disabled control.
C1_Witness ==
  /\ page = "analysis"
  /\ InFlight("analyze") = 1
  /\ btnDisabled["analyze"]

\* C2: every reply to /api/analyze (success, non-2xx, unreadable body, network
\* failure) is handled by a task that ends with the submit control enabled and
\* the loading indicator hidden, and every submission in flight eventually
\* reaches that state.
C2_SubmitAlwaysReenabled ==
  /\ [][\A r \in Pending("analyze") : \A resp \in AnalyzeReplies :
          handleAnalyzeReply(r, resp) =>
            ~btnDisabled'["analyze"] /\ ~btnLoader'["analyze"]]_vars
  /\ (InFlight("analyze") > 0) ~> (~btnDisabled["analyze"] /\ ~btnLoader["analyze"])

\* C2 witness: a submission has failed at the network level and the control
\* is usable again.
C2_Witness ==
  /\ page = "analysis"
  /\ selectedFile # Null
  /\ InFlight("analyze") = 0
  /\ alerts = <<Note(MsgNetwork, "error")>>
  /\ ~btnDisabled["analyze"] /\ ~btnLoader["analyze"]

C4_LoginFailureWritesNothing ==
  [][\A r \in Pending("login") : \A resp \in AuthReplies :
       (handleLoginReply(r, resp) /\ ~Ok(resp)) =>
         /\ token' = token /\ doctorName' = doctorName /\ doctorId' = doctorId
         /\ redirectTimers' = redirectTimers
         /\ nav' = nav
         /\ Truthy(resp.data.detail) => alerts' = <<Note(resp.data.detail[1], "error")>>]_vars

\* C4 witness: the entry page shows the server's detail and holds no session.
C4_Witness ==
  /\ page = "index"
  /\ alerts = <<Note("Incorrect email or password", "error")>>
  /\ token = Null /\ doctorName = Null /\ doctorId = Null
  /\ redirectTimers = 0 /\ nav = NoNav
  /\ ~btnDisabled["login"]

\* C5: handleLogout removes token, doctorName and doctorId, assigns the
\* navigation to index.html and leaves the theme preference alone; while
\* that navigation is pending on a protected page no session is persisted.
C5_LogoutClearsSession ==
  /\ [][handleLogout =>
          /\ token' = Null /\ doctorName' = Null /\ doctorId' = Null
          /\ nav' = "index"
          /\ theme' = theme]_vars
  /\ [](page \in Protected /\ nav = "index" =>
          token = Null /\ doctorName = Null /\ doctorId = Null)

\* C5 witness: a page loaded with a session has been logged out of and the
\* dark theme preference is still persisted.
C5_Witness ==
  /\ page \in Protected
  /\ userName = Some("Ada")
  /\ nav = "index"
  /\ token = Null /\ doctorName = Null /\ doctorId = Null
  /\ theme = Some("dark")

\* The DOMContentLoaded handler of a protected page runs.
LoadProtected == LoadAnalysis \/ LoadRecords \/ LoadDashboard

\* C6: the initialisation of every protected page runs checkAuth: with no
\* token it assigns the navigation to index.html and the initialisation
\* still completes; with a token checkAuth returns it and assigns nothing.
C6_CheckAuthOnInit ==
  [][LoadProtected =>
       /\ page' \in Protected
       /\ ~Truthy(token) => nav' = "index" /\ checkAuth.ret = Null
       /\ Truthy(token) => nav' = NoNav /\ checkAuth.ret = token]_vars

\* C6 witness: the records page was loaded without a token and the redirect
\* to the entry page is pending.
C6_Witness ==
  /\ page = "records"
  /\ nav = "index"
  /\ token = Null
  /\ userName = Some("Doctor")

\* A request is issued by the step: a further copy is in flight, or the
\* document just loaded sent it.
Issued(r) ==
  \/ CopiesIn(r, net') > CopiesIn(r, net)
  \/ page' = nav /\ BagIn(r, net')

\* The endpoints that take a bearer token.
AuthedUrls ==
  {"/api/analyze", "/api/records", "/api/stats"}
    \cup { "/api/records/" \o NumToStr(i) : i \in Ids }
    \cup { "/api/download/report/" \o NumToStr(i) : i \in Ids }

\* The continuation of a call to one of those endpoints runs on resp.
AuthedReply(r, resp) ==
  \/ handleAnalyzeReply(r, resp)
  \/ downloadReportReply(r, resp)
  \/ loadAllRecordsReply(r, resp)
  \/ viewRecordDetailReply(r, resp)
  \/ \E a \in Accuracies : loadStatisticsReply(r, resp, a)
  \/ loadRecentAnalysesReply(r, resp)

\* The continuation of a login, register or analyze call runs on resp.
FormReply(r, resp) ==
  \/ handleLoginReply(r, resp)
  \/ handleRegisterReply(r, resp)
  \/ handleAnalyzeReply(r, resp)

\* The per-action fallback text of login, register and analyze.
Fallback(kind) ==
  CASE kind = "login" -> MsgLoginFail
    [] kind = "register" -> MsgRegisterFail
    [] kind = "analyze" -> MsgAnalyzeFail

\* The rejection the server gives for an expired or invalid token.
Expired == Reply(401, TRUE, [detail |-> Some("Could not validate credentials")])

\* C7: when the reply to an authenticated call is the server's rejection of
\* an expired or invalid token, the task handling it assigns the navigation
\* to the entry page and shows no notification.
C7_ExpiredTokenRedirects ==
  [][\A r \in BagToSet(net) :
       AuthedReply(r, Expired) => nav' = "index" /\ alerts' = alerts]_vars

\* C8: every request issued to /api/analyze, /api/records, /api/records/{id},
\* /api/stats and /api/download/report/{id} carries Authorization: Bearer
\* followed by the token that storage holds when the request is issued.
C8_BearerOnEveryAuthedRequest ==
  [][\A r \in BagToSet(net') :
       (Issued(r) /\ r.url \in AuthedUrls) =>
         /\ r.headers.Authorization = Some("Bearer " \o TemplateStr(token))
         /\ token # Null => r.headers.Authorization = Some("Bearer " \o token[1])]_vars

\* C8 witness: a report download and the records list are in flight with the
\* persisted token in their headers.
C8_Witness ==
  /\ page = "records"
  /\ token = Some("tokA")
  /\ \E r \in Pending("download") :
       r.url = "/api/download/report/2" /\ r.headers.Authorization = Some("Bearer tokA")
  /\ \E r \in Pending("detail") : r.headers.Authorization = Some("Bearer tokA")

\* C9: after a failed login, register or analyze call the notification is the
\* detail when the status is non-2xx and a detail is present, the action's
\* fallback when the status is non-2xx and no detail is present, and the
\* network-error text only when no response was received.
C9_FailureTextByClass ==
  [][\A r \in BagToSet(net) : \A resp \in AuthReplies \cup AnalyzeReplies :
       (~Ok(resp) /\ FormReply(r, resp)) =>
         /\ (resp.recv /\ Truthy(resp.data.detail)) => Shown(resp.data.detail[1])
         /\ (resp.recv /\ ~Truthy(resp.data.detail)) => Shown(Fallback(r.kind))
         /\ Shown(MsgNetwork) => ~resp.recv]_vars

\* The replies of every endpoint.
AllReplies ==
  AuthReplies \cup AnalyzeReplies \cup RecordsReplies \cup DetailReplies
    \cup StatsReplies \cup DownloadReplies

\* C10: for every API call, the task handling a non-2xx reply or a network
\* failure shows a notification.
C10_EveryFailureNotified ==
  [][\A r \in BagToSet(net) : \A resp \in Sample(AllReplies) :
       (~Ok(resp) /\ (FormReply(r, resp) \/ AuthedReply(r, resp))) => Notified]_vars

\* Requests of one kind to one url in flight, counted with multiplicity.
InFlightTo(kind, url) ==
  BagCardinality([r \in { q \in Pending(kind) : q.url = url } |-> CopiesIn(r, net)])

\* The kinds of request a user action issues: the two form submits of the
\* entry page, the analyze submit, the download button, the click on a row.
UserKinds == {"login", "register", "analyze", "download", "detail"}

\* C11: for every user action that issues a request (analyze, login,
\* register, report download, opening a record detail) the triggering
\* control is disabled while the request is in flight, so the same action
\* never has two requests in flight at once.
C11_OneRequestPerAction ==
  \A r \in BagToSet(net) : r.kind \in UserKinds => InFlightTo(r.kind, r.url) <= 1

\* The user selects file f by browse or by drop.
Selects(f) == fileInputChange(Some(f)) \/ uploadAreaDrop(Some(f))

\* C12: selecting, by browse or by drop, a file whose MIME type does not
\* start with image/ shows the warning and leaves the selected-file slot and
\* the preview exactly as they were.
C12_NonImageRejected ==
  [][\A f \in Files : (~IsImage(f) /\ Selects(f)) =>
       /\ Shown(MsgNotImage)
       /\ selectedFile' = selectedFile
       /\ previewActive' = previewActive /\ previewSrc' = previewSrc
       /\ reads' = reads]_vars

\* C12 witness: a text file was browsed to while the slot held an image with
\* its preview shown; the warning is up and the slot still holds the image.
C12_Witness ==
  /\ fileInputValue = Some(CHOOSE f \in Files : ~IsImage(f))
  /\ alerts = <<Note(MsgNotImage, "error")>>
  /\ selectedFile = Some(SampleFile)
  /\ previewActive /\ previewSrc = Some(DataURL(SampleFile))

\* C13: the slot holds at most one file; selecting an image sets the slot to
\* that file whatever it held, and the remove action leaves the slot empty,
\* the file input cleared and the preview hidden.
C13_SingleFileSlot ==
  /\ [](selectedFile = Null \/ selectedFile \in { Some(f) : f \in Files })
  /\ [][/\ \A f \in Files : (IsImage(f) /\ Selects(f)) => selectedFile' = Some(f)
        /\ removeImage =>
             selectedFile' = Null /\ fileInputValue' = Null /\ ~previewActive']_vars

\* C13 witness: a second image replaced the first in the slot before the
\* first one's preview had been removed.
C13_Witness ==
  /\ selectedFile \in { Some(f) : f \in Files }
  /\ selectedFile # Some(SampleFile)
  /\ previewActive /\ previewSrc = Some(DataURL(SampleFile))
  /\ fileInputValue = selectedFile

\* C14: submitting the analysis form while the slot is empty shows the
\* warning and issues no request; the submit control stays enabled and the
\* loading indicator stays hidden.
C14_SubmitWithoutFile ==
  [][\A form \in AnalyzeForms : (selectedFile = Null /\ handleAnalyze(form)) =>
       /\ Shown(MsgNoFile)
       /\ net' = net
       /\ ~btnDisabled'["analyze"] /\ ~btnLoader'["analyze"]]_vars

\* C14 witness: the warning is up on the analysis page, nothing is in
\* flight and the button is usable.
C14_Witness ==
  /\ page = "analysis"
  /\ selectedFile = Null
  /\ alerts = <<Note(MsgNoFile, "error")>>
  /\ net = EmptyBag
  /\ ~btnDisabled["analyze"] /\ ~btnLoader["analyze"]

\* The values a request body holds under a field name, and how many
\* entries carry that name.
Field(body, name) == { body[k][2] : k \in { j \in DOMAIN body : body[j][1] = name } }
Entries(body, name) == Cardinality({ k \in DOMAIN body : body[k][1] = name })

\* C15: for each of the four vital signs independently, the /api/analyze
\* request holds the field exactly when the user entered a value, then once
\* and with that value (an entered 0 included); a blank field is omitted and
\* never sent as an empty string.
C15_VitalsOmittedIffBlank ==
  [][(selectedFile # Null /\ net' # net) =>
       \A t, o, h, rr \in VitalValues :
         LET form == [SampleForm EXCEPT !.temperature = t, !.oxygen_saturation = o,
                                        !.heart_rate = h, !.respiratory_rate = rr]
         IN handleAnalyze(form) =>
              /\ \E r \in BagToSet(net') : Issued(r) /\ r.url = "/api/analyze"
              /\ \A r \in BagToSet(net') : Issued(r) =>
                   \A v \in VitalNames :
                     /\ form[v] = "" => Entries(r.arg.body, v) = 0
                     /\ form[v] # "" =>
                          /\ Entries(r.arg.body, v) = 1
                          /\ Field(r.arg.body, v) = {form[v]}
                     /\ "" \notin Field(r.arg.body, v)]_vars

\* C15 witness: a request is in flight that carries a heart rate of 0 and a
\* respiratory rate, and neither temperature nor oxygen saturation.
C15_Witness ==
  \E r \in Pending("analyze") :
    /\ Field(r.arg.body, "heart_rate") = {"0"}
    /\ Field(r.arg.body, "respiratory_rate") = {"98.6"}
    /\ Entries(r.arg.body, "temperature") = 0
    /\ Entries(r.arg.body, "oxygen_saturation") = 0

\* C16: the /api/analyze request holds the medical_history field exactly
\* when the history entered in the form is non-empty.
C16_HistoryOnlyIfNonEmpty ==
  [][\A form \in AnalyzeForms : (selectedFile # Null /\ handleAnalyze(form)) =>
       \A r \in BagToSet(net') : Issued(r) =>
         (Entries(r.arg.body, "medical_history") > 0 <=> form.medical_history # "")]_vars

\* The checked values in form order joined by ", ", built from the last
\* checked box backwards.
RECURSIVE JoinedUpTo(_, _)
JoinedUpTo(checked, k) ==
  IF k = 0 THEN ""
  ELSE LET before == JoinedUpTo(checked, k - 1)
       IN IF ~checked[k] THEN before
          ELSE IF before = "" THEN SymptomBoxes[k]
          ELSE before \o ", " \o SymptomBoxes[k]

\* C17: the symptoms value of the /api/analyze request is the checked values
\* joined by ", " in form order, and "None reported" when nothing is checked.
C17_SymptomsJoined ==
  [][(selectedFile # Null /\ net' # net) =>
       \A checked \in [DOMAIN SymptomBoxes -> BOOLEAN] :
         handleAnalyze([SampleForm EXCEPT !.symptoms = checked]) =>
           \A r \in BagToSet(net') : Issued(r) =>
             /\ Entries(r.arg.body, "symptoms") = 1
             /\ Field(r.arg.body, "symptoms") =
                  { IF \A k \in DOMAIN SymptomBoxes : ~checked[k]
                      THEN "None reported"
                      ELSE JoinedUpTo(checked, Len(SymptomBoxes)) }]_vars

\* C17 witness: a request with all three symptoms checked is in flight.
C17_Witness ==
  \E r \in Pending("analyze") :
    Field(r.arg.body, "symptoms") = {"Cough, Fever, Chest pain"}

\* C18: a registration whose password is shorter than 8 characters issues
\* no request, shows the validation message, persists nothing and ends with
\* the submit control enabled; with 8 characters or more the request to
\* /api/auth/register is issued.
C18_ShortPasswordRejected ==
  [][\A len \in PasswordLengths : handleRegister(len) =>
       IF len < 8
         THEN /\ net' = net
              /\ Shown(MsgPassword)
              /\ token' = token /\ doctorName' = doctorName /\ doctorId' = doctorId
              /\ redirectTimers' = redirectTimers
              /\ ~btnDisabled'["register"] /\ ~btnLoader'["register"]
         ELSE \E r \in BagToSet(net') : Issued(r) /\ r.url = "/api/auth/register"]_vars

\* C18 witness: the register form shows the validation message, nothing is
\* in flight, no session is stored and the button is usable.
C18_Witness ==
  /\ page = "index"
  /\ formShown = "register"
  /\ alerts = <<Note(MsgPassword, "error")>>
  /\ net = EmptyBag
  /\ token = Null
  /\ ~btnDisabled["register"] /\ ~btnLoader["register"]

\* The fixed mapping from severity to visual class.
BadgeOf(severity) ==
  CASE severity = "Severe" -> "danger"
    [] severity = "Moderate" -> "warning"
    [] severity = "Mild" -> "success"
    [] OTHER -> "info"

\* C19: every row of the records table and every record detail view, in
\* either definition of the detail view, carries the badge class danger for
\* Severe, warning for Moderate, success for Mild and info for anything else.
C19_BadgeMappingTotal ==
  /\ \A k \in DOMAIN rows : ~rows[k].empty => rows[k].badge = BadgeOf(rows[k].severity)
  /\ \A k \in DOMAIN modals : modals[k].badge = BadgeOf(modals[k].severity)

\* C20: the result view colours the severity by the same mapping as the
\* records badge: the colour variable is the one named after the badge class.
C20_ResultColourMatchesBadge ==
  results # Null =>
    results[1].color = "var(--" \o BadgeOf(results[1].severity) \o ")"

\* C21: displayRecords leaves exactly one row per record, in order, each
\* bound to its record; for an empty list it leaves exactly one empty-state
\* row and shows no error; no row from before remains.
C21_OneRowPerRecord ==
  [][\A r \in Pending("records") : \A resp \in RecordsReplies :
       (Ok(resp) /\ resp.json /\ loadAllRecordsReply(r, resp)) =>
         LET records == resp.data.records
         IN /\ alerts' = alerts
            /\ IF Len(records) = 0
                 THEN Len(rows') = 1 /\ rows'[1].empty
                 ELSE /\ Len(rows') = Len(records)
                      /\ \A k \in DOMAIN records :
                           ~rows'[k].empty /\ rows'[k].id = records[k].id]_vars

\* C21 witness: the records list came back empty and the table holds the
\* empty-state row alone, with no notification.
C21_Witness ==
  /\ page = "records"
  /\ searchReady
  /\ Len(rows) = 1 /\ rows[1].empty
  /\ alerts = <<>>

\* Two characters are the same letter, whatever their case.
SameLetter(a, b) ==
  a = b \/ \E n \in DOMAIN UpperCase : {a, b} = {UpperCase[n], LowerCase[n]}
\* The query occurs in the text, case ignored.
Occurs(query, text) ==
  \E i \in 0..(Len(text) - Len(query)) :
    \A j \in 1..Len(query) : SameLetter(text[i + j], query[j])

\* C22: after an input event on the search box each rendered row is visible
\* exactly when its text contains the query, case ignored; with the empty
\* query every row is visible; the event issues no request and leaves the
\* rows, their order and their contents as they were.
C22_SearchFiltersRows ==
  [][\A term \in Queries : searchInput(term) =>
       /\ \A k \in DOMAIN rows' : rows'[k].visible <=> Occurs(term, rows'[k].text)
       /\ term = <<>> => \A k \in DOMAIN rows' : rows'[k].visible
       /\ net' = net
       /\ DOMAIN rows' = DOMAIN rows
       /\ \A k \in DOMAIN rows :
            [rows'[k] EXCEPT !.visible = TRUE] = [rows[k] EXCEPT !.visible = TRUE]]_vars

\* C22 witness: of the rows of Jane Doe and John Smith only the first is
\* visible.
C22_Witness ==
  /\ page = "records"
  /\ Len(rows) = 2
  /\ rows[1].text = rowText([patient_name |-> PatientNames[1], severity |-> "Severe"])
  /\ rows[1].visible
  /\ SubSeq(rows[2].text, 1, Len(PatientNames[2])) = PatientNames[2]
  /\ ~rows[2].visible

\* The report address and the file name of an analysis id, written out.
ReportUrl(n) ==
  CASE n = 1 -> "/api/download/report/1" [] n = 42 -> "/api/download/report/42"
ReportFile(n) ==
  CASE n = 1 -> "medical_report_1.pdf" [] n = 42 -> "medical_report_42.pdf"

\* C23: downloadReport(n) issues exactly one request, to
\* /api/download/report/n; when the reply has a success status and its body
\* arrives, the file medical_report_n.pdf is offered; on a non-success status
\* or a network failure (the fetch, or the transfer of the body, fails) no
\* file is offered, the error notification is shown and no request is
\* issued.
C23_DownloadOnceNoRetry ==
  [][/\ \A n \in {1, 42} : downloadReport(n) =>
          \E r \in BagToSet(net') : net' = Send(r) /\ r.url = ReportUrl(n)
     /\ \A r \in Pending("download") : \A resp \in DownloadReplies :
          downloadReportReply(r, resp) =>
            /\ net' = Done(r)
            /\ IF Ok(resp) /\ resp.json
                 THEN /\ r.url = ReportUrl(r.arg.id)
                      /\ saved' = saved \cup {ReportFile(r.arg.id)}
                 ELSE /\ saved' = saved
                      /\ Shown(MsgDownloadFail)
                      /\ Last(alerts').type = "error"]_vars

\* C23 witness: the report of analysis 42 has been saved under its name and
\* nothing is in flight.
C23_Witness ==
  /\ page = "analysis"
  /\ saved = {"medical_report_42.pdf"}
  /\ net = EmptyBag
  /\ alerts = <<Note(MsgDownloadOk, "success")>>

\* The theme in effect for a persisted preference: light when none is
\* persisted.
EffectiveTheme == IF theme = Null THEN "light" ELSE theme[1]

\* C24 as stated: whatever is persisted (nothing, light or dark), after a
\* toggle a second toggle persists the value that was persisted before the
\* first.
C24_AsStated ==
  [][toggleTheme => Some(nextTheme(dataTheme')) = theme]_vars

\* C24: after a toggle a second toggle persists the theme that was in effect
\* before the first (light when none was persisted); when a theme was
\* persisted, that is the persisted value itself.
C24_ToggleTwiceRestores ==
  [][toggleTheme =>
       /\ nextTheme(dataTheme') = EffectiveTheme
       /\ theme # Null => Some(nextTheme(dataTheme')) = theme]_vars

\* C24 witness: the preference persisted is light on a page showing light,
\* as two toggles leave it.
C24_Witness ==
  /\ page \in Pages
  /\ theme = Some("light")
  /\ dataTheme = "light"

\* C25: a page load sets the root's data-theme to the persisted theme, or
\* to light when none is persisted; after a toggle the persisted theme and
\* the root's data-theme are equal, are light or dark and differ from the
\* root's value before; a toggle issues no request.
C25_ThemeBinaryAndPersisted ==
  [][/\ (LoadIndex \/ LoadProtected) =>
          dataTheme' = (IF theme = Null THEN "light" ELSE theme[1])
     /\ toggleTheme =>
          /\ theme' = Some(dataTheme')
          /\ dataTheme' \in {"light", "dark"}
          /\ dataTheme' # dataTheme
          /\ net' = net]_vars

\* C25 witness: dark is persisted and shown on the records page while the
\* records request of its load is still in flight.
C25_Witness ==
  /\ page = "records"
  /\ theme = Some("dark")
  /\ dataTheme = "dark"
  /\ InFlight("records") = 1

\* C26: a record detail view displays each of the four vital signs exactly
\* when the record holds it, a value of 0 included, and has its Vital Signs
\* section exactly when the record holds at least one of them.
C26_VitalsShownIffPresent ==
  [][\A r \in Pending("detail") : \A resp \in DetailReplies :
       (Ok(resp) /\ resp.json /\ viewRecordDetailReply(r, resp)) =>
         LET modal == Last(modals')
             held == { v \in VitalNames : resp.data.vital_signs[v] # Null }
         IN /\ modal.vitals = held
            /\ modal.section <=> held # {}]_vars

\* C27: on the analysis page, once no file read is pending the preview is
\* shown exactly when the slot holds a file, and the image previewed is that
\* of the file in the slot.
C27_PreviewFollowsSlot ==
  (page = "analysis" /\ reads = EmptyBag) =>
    /\ previewActive <=> selectedFile # Null
    /\ selectedFile # Null => previewSrc = Some(DataURL(selectedFile[1]))

\* C28: with no token persisted, the initialisation of a protected page
\* (dashboard, analysis, records) issues no request.
C28_NoFetchWithoutToken ==
  [][(~Truthy(token) /\ LoadProtected) => net' = EmptyBag]_vars

\* C29: the load of the entry page redirects (to the dashboard) exactly when
\* a token is persisted, the load of a protected page redirects (to the entry
\* page) exactly when none is; the page a load-time redirect leads to finds
\* storage such that it does not redirect in turn, and a pending navigation
\* leads to a loaded page with no navigation pending.
C29_RedirectsSettle ==
  /\ [][/\ LoadIndex => nav' = (IF Truthy(token) THEN "dashboard" ELSE NoNav)
        /\ LoadProtected => nav' = (IF Truthy(token) THEN NoNav ELSE "index")]_vars
  /\ [](page = "index" /\ nav = "dashboard" => Truthy(token))
  /\ [](page \in Protected /\ nav = "index" => ~Truthy(token))
  /\ (nav # NoNav) ~> (page \in Pages /\ nav = NoNav)

\* C29 witness: the entry page was loaded with a token persisted and its
\* redirect to the dashboard is pending.
C29_Witness ==
  /\ page = "index"
  /\ nav = "dashboard"
  /\ Truthy(token)
  /\ redirectTimers = 0 /\ alerts = <<>> /\ net = EmptyBag

\* C30: the results section's download action and heatmap image carry the
\* analysis_id of the response it displays; a record detail modal's download
\* action carries the id of the record whose detail request it answers, in
\* whatever order the replies arrive, and opening it leaves the modals
\* already open as they were; a download action requests the report of the
\* id it carries.
C30_ViewsReferToTheirAnalysis ==
  /\ [][(page = "analysis" /\ results' # results) =>
          \A r \in Pending("analyze") : \A resp \in Sample(AnalyzeReplies) :
            (Success(resp) /\ handleAnalyzeReply(r, resp)) =>
              /\ results'[1].download = resp.data.analysis_id
              /\ results'[1].heatmap =
                   "/api/image/gradcam/" \o NumToStr(resp.data.analysis_id)]_vars
  /\ [][(page = "records" /\ Len(modals') > Len(modals)) =>
          \A r \in Pending("detail") : \A resp \in Sample(DetailReplies) :
            (Ok(resp) /\ viewRecordDetailReply(r, resp)) =>
              /\ r.url = "/api/records/" \o NumToStr(Last(modals').download)
              /\ SubSeq(modals', 1, Len(modals)) = modals]_vars
  /\ [][(net' # net) =>
          \A n \in Ids : downloadReport(n) =>
            \E q \in BagToSet(net') :
              net' = Send(q) /\ q.url = "/api/download/report/" \o NumToStr(n)]_vars
  /\ [](results # Null =>
          results[1].heatmap = "/api/image/gradcam/" \o NumToStr(results[1].download))

\* C30 witness: the detail of record 2 was opened before that of record 1;
\* each modal's download action carries its own record's id.
C30_Witness ==
  /\ page = "records"
  /\ Len(modals) = 2
  /\ modals[1].id = 2 /\ modals[1].download = 2
  /\ modals[2].id = 1 /\ modals[2].download = 1

====
